---- MODULE Spec2Model ----
(***************************************************************************)
(* Model of the QuantLLM analysis pipeline (src/src/graph/analysisGraph.ts) *)
(* and of the analysis cache of the web server (src/server.ts).            *)
(*                                                                         *)
(* Prices are integers in ticks of 1e-4 (1.0000 = 10000 ticks), so that    *)
(* every comparison of the source is exact integer arithmetic.  A strength *)
(* or score is a fraction [num, den].  Source arrays are 0-based; the      *)
(* sequences of the model are 1-based and At(s, i) reads source index i.   *)
(***************************************************************************)
EXTENDS Integers, Sequences, FiniteSets, TLC

VARIABLES
    pc,          \* position of the run (of the pipeline, or of a helper under test)
    candles,     \* the input candle sequence
    oracle,      \* what the imported rsi/ema return on each prefix of the closes
    indRes,      \* Partial<GraphState> returned by indicatorNode
    patRes,      \* Partial<GraphState> returned by patternNode
    trRes,       \* Partial<GraphState> returned by trendNode
    riskRes,     \* Partial<GraphState> returned by riskNode
    vizRes,      \* Partial<GraphState> returned by visualsAndSignalsNode
    state,       \* the GraphState being merged: base, merged1, merged2, merged3, finalState
    called,      \* the node calls made so far, in call order
    ret,         \* the value runGraphPipeline resolved with
    patOut,      \* result of PatternAgent on candles (helper runs)
    events,      \* result of computePatternEvents on candles (helper runs)
    visOut,      \* result of computeVisualsAndSignals on candles (helper runs)
    latestAnalysis, \* server: the cached analysis, or null
    isAnalyzing,    \* server: the in-flight flag
    calls,          \* server: each caller of generateAnalysis and where it stands
    runs            \* server: number of analysis runs started so far

vars == <<pc, candles, oracle, indRes, patRes, trRes, riskRes, vizRes, state,
          called, ret, patOut, events, visOut, latestAnalysis, isAnalyzing, calls, runs>>

pipeVars == <<indRes, patRes, trRes, riskRes, vizRes, state, called, ret>>
helperVars == <<patOut, events, visOut>>
serverVars == <<latestAnalysis, isAnalyzing, calls, runs>>

(***************************************************************************)
(* Bounds of the model                                                     *)
(***************************************************************************)
MaxLen == 3       \* longest candle sequence given to the pattern helpers
MaxPipeLen == 2   \* longest candle sequence given to a pipeline run
MaxN == 28        \* longest candle sequence given to computeSignals

(***************************************************************************)
(* Values                                                                  *)
(***************************************************************************)
\* A JavaScript object is a function from the names of its defined fields; a
\* field that is undefined is left out of the domain.
EmptyObj == [f \in {} |-> TRUE]                              \* {}
Has(obj, f) == f \in DOMAIN obj                              \* obj.f is an object
Absent(obj, f) == f \notin DOMAIN obj                        \* !obj.f
Pick(obj, fields) == [f \in fields \cap DOMAIN obj |-> obj[f]]
\* { ...obj, f: src.g }
Assign(obj, f, src, g) ==
    IF g \in DOMAIN src THEN (f :> src[g]) @@ obj
    ELSE [k \in DOMAIN obj \ {f} |-> obj[k]]
\* obj.errors || []
ErrorsOf(obj) == IF "errors" \in DOMAIN obj THEN obj["errors"] ELSE <<>>

Pending == [pending |-> TRUE]       \* a promise that has not settled yet

Abs(x) == IF x < 0 THEN -x ELSE x
Min(a, b) == IF a <= b THEN a ELSE b
Max(a, b) == IF a >= b THEN a ELSE b
At(s, i) == s[i + 1]

\* 1e-9 in ticks of 1e-4 is 1/EpsInv of a tick
EpsInv == 10^5

\* open/close of a candle, in ticks
Prices == {10000, 10001, 10100}

TimeOf(i) == 60 * (i + 1)

Candle(i, o, c) == [time |-> TimeOf(i), open |-> o, close |-> c]

\* all candle sequences of length n over the price set, times by position
CandleSeqs(n, P) ==
    { [k \in 1..n |-> Candle(k - 1, oc[k][1], oc[k][2])] : oc \in [1..n -> P \X P] }

(***************************************************************************)
(* PatternAgent (classification of the last two candles).  The optional    *)
(* enrichment only adds the aiSummary field to the result it is given and  *)
(* swallows its own failures; pattern and strength are what is modelled.   *)
(***************************************************************************)
DojiStrength == [num |-> 2, den |-> 5]      \* 0.4
ZeroStrength == [num |-> 0, den |-> 1]      \* 0

EngulfStrengthNoCap(lastBody, prevBody) ==
    [num |-> lastBody * EpsInv, den |-> prevBody * EpsInv + 1]

\* Math.min(1, lastBody / (prevBody + 1e-9))
EngulfStrength(lastBody, prevBody) ==
    [num |-> Min(prevBody * EpsInv + 1, lastBody * EpsInv),
     den |-> prevBody * EpsInv + 1]

isTinyBody(bodySize, price) == 1000 * bodySize <= price

PatternAgentEngulfFirst(cs) ==
    IF Len(cs) < 2 THEN [pattern |-> "None", strength |-> ZeroStrength]
    ELSE
    LET prev == At(cs, Len(cs) - 2)
        last == At(cs, Len(cs) - 1)
        prevBody == Abs(prev.close - prev.open)
        lastBody == Abs(last.close - last.open)
        isDoji == isTinyBody(lastBody, last.close)
        lastBull == last.close > last.open
        lastBear == last.close < last.open
        prevBull == prev.close > prev.open
        prevBear == prev.close < prev.open
        engulfs == /\ Min(last.open, last.close) <= Min(prev.open, prev.close)
                   /\ Max(last.open, last.close) >= Max(prev.open, prev.close)
    IN  IF lastBull /\ prevBear /\ engulfs
        THEN [pattern |-> "BullishEngulfing", strength |-> EngulfStrength(lastBody, prevBody)]
        ELSE IF lastBear /\ prevBull /\ engulfs
        THEN [pattern |-> "BearishEngulfing", strength |-> EngulfStrength(lastBody, prevBody)]
        ELSE IF isDoji THEN [pattern |-> "Doji", strength |-> DojiStrength]
        ELSE [pattern |-> "None", strength |-> ZeroStrength]

PatternAgentNoLengthGuard(cs) ==
    IF Len(cs) < 1 THEN [pattern |-> "None", strength |-> ZeroStrength]
    ELSE
    LET last == At(cs, Len(cs) - 1)
        lastBody == Abs(last.close - last.open)
    IN  IF Len(cs) < 2
        THEN (IF isTinyBody(lastBody, last.close)
              THEN [pattern |-> "Doji", strength |-> DojiStrength]
              ELSE [pattern |-> "None", strength |-> ZeroStrength])
        ELSE PatternAgentEngulfFirst(cs)

PatternAgentNoPrevColour(cs) ==
    IF Len(cs) < 2 THEN [pattern |-> "None", strength |-> ZeroStrength]
    ELSE
    LET prev == At(cs, Len(cs) - 2)
        last == At(cs, Len(cs) - 1)
        prevBody == Abs(prev.close - prev.open)
        lastBody == Abs(last.close - last.open)
        isDoji == isTinyBody(lastBody, last.close)
        lastBull == last.close > last.open
        lastBear == last.close < last.open
        engulfs == /\ Min(last.open, last.close) <= Min(prev.open, prev.close)
                   /\ Max(last.open, last.close) >= Max(prev.open, prev.close)
    IN  IF isDoji THEN [pattern |-> "Doji", strength |-> DojiStrength]
        ELSE IF lastBull /\ engulfs
        THEN [pattern |-> "BullishEngulfing", strength |-> EngulfStrength(lastBody, prevBody)]
        ELSE IF lastBear /\ engulfs
        THEN [pattern |-> "BearishEngulfing", strength |-> EngulfStrength(lastBody, prevBody)]
        ELSE [pattern |-> "None", strength |-> ZeroStrength]

PatternAgent(cs) ==
    IF Len(cs) < 2 THEN [pattern |-> "None", strength |-> ZeroStrength]
    ELSE
    LET prev == At(cs, Len(cs) - 2)
        last == At(cs, Len(cs) - 1)
        prevBody == Abs(prev.close - prev.open)
        lastBody == Abs(last.close - last.open)
        isDoji == isTinyBody(lastBody, last.close)
        lastBull == last.close > last.open
        lastBear == last.close < last.open
        prevBull == prev.close > prev.open
        prevBear == prev.close < prev.open
        engulfs == /\ Min(last.open, last.close) <= Min(prev.open, prev.close)
                   /\ Max(last.open, last.close) >= Max(prev.open, prev.close)
    IN  IF isDoji THEN [pattern |-> "Doji", strength |-> DojiStrength]
        ELSE IF lastBull /\ prevBear /\ engulfs
        THEN [pattern |-> "BullishEngulfing", strength |-> EngulfStrength(lastBody, prevBody)]
        ELSE IF lastBear /\ prevBull /\ engulfs
        THEN [pattern |-> "BearishEngulfing", strength |-> EngulfStrength(lastBody, prevBody)]
        ELSE [pattern |-> "None", strength |-> ZeroStrength]

(***************************************************************************)
(* computePatternEvents                                                    *)
(***************************************************************************)
\* the events pushed by iteration i of the loop (none or one)
PatternEventAtNoContinue(cs, i) ==
    LET prev == At(cs, i - 1)
        last == At(cs, i)
        prevBody == Abs(prev.close - prev.open)
        lastBody == Abs(last.close - last.open)
        isDoji == 1000 * lastBody <= last.close
        lastBull == last.close > last.open
        lastBear == last.close < last.open
        prevBull == prev.close > prev.open
        prevBear == prev.close < prev.open
        engulfs == /\ Min(last.open, last.close) <= Min(prev.open, prev.close)
                   /\ Max(last.open, last.close) >= Max(prev.open, prev.close)
        doji == IF isDoji
                THEN <<[index |-> i, pattern |-> "Doji", strength |-> DojiStrength]>>
                ELSE <<>>
    IN  doji \o
        (IF lastBull /\ prevBear /\ engulfs
         THEN <<[index |-> i, pattern |-> "BullishEngulfing",
                 strength |-> EngulfStrength(lastBody, prevBody)]>>
         ELSE IF lastBear /\ prevBull /\ engulfs
         THEN <<[index |-> i, pattern |-> "BearishEngulfing",
                 strength |-> EngulfStrength(lastBody, prevBody)]>>
         ELSE <<>>)

PatternEventAt(cs, i) ==
    LET prev == At(cs, i - 1)
        last == At(cs, i)
        prevBody == Abs(prev.close - prev.open)
        lastBody == Abs(last.close - last.open)
        isDoji == 1000 * lastBody <= last.close
        lastBull == last.close > last.open
        lastBear == last.close < last.open
        prevBull == prev.close > prev.open
        prevBear == prev.close < prev.open
        engulfs == /\ Min(last.open, last.close) <= Min(prev.open, prev.close)
                   /\ Max(last.open, last.close) >= Max(prev.open, prev.close)
    IN  IF isDoji
        THEN <<[index |-> i, pattern |-> "Doji", strength |-> DojiStrength]>>
        ELSE IF lastBull /\ prevBear /\ engulfs
        THEN <<[index |-> i, pattern |-> "BullishEngulfing",
                strength |-> EngulfStrength(lastBody, prevBody)]>>
        ELSE IF lastBear /\ prevBull /\ engulfs
        THEN <<[index |-> i, pattern |-> "BearishEngulfing",
                strength |-> EngulfStrength(lastBody, prevBody)]>>
        ELSE <<>>

RECURSIVE PatternEventsLoop(_, _, _)
PatternEventsLoop(cs, i, evs) ==
    IF i < Len(cs)
    THEN PatternEventsLoop(cs, i + 1, evs \o PatternEventAt(cs, i))
    ELSE evs

computePatternEvents(cs) == PatternEventsLoop(cs, 1, <<>>)

(***************************************************************************)
(* Series of the imported rsi / ema (utils/technical.js)                   *)
(***************************************************************************)
\* The imported functions are pure; the value each returns on the prefix of
\* the closes of length k is an input of the model, held in oracle.
rsiLast(sub, period) == oracle.rsi[Len(sub)]
emaLast(sub, period) == IF period = 12 THEN oracle.ema12[Len(sub)] ELSE oracle.ema26[Len(sub)]

computeRsiSeriesWholeInput(closes, period) ==
    [k \in 1..Len(closes) |-> rsiLast(closes, period)]

computeRsiSeries(closes, period) ==
    [k \in 1..Len(closes) |-> rsiLast(SubSeq(closes, 1, k), period)]

computeEmaSeries(closes, period) ==
    [k \in 1..Len(closes) |-> emaLast(SubSeq(closes, 1, k), period)]

(***************************************************************************)
(* computeSignals                                                          *)
(***************************************************************************)
WarmUp == 26          \* first index scanned
UpFactor == 1001      \* ema26 * 1.001, in thousandths
DownFactor == 999     \* ema26 * 0.999, in thousandths
BuyRsiLow == 55
BuyRsiHigh == 70
SellRsiHigh == 45
SellRsiLow == 30

\* the Map built from the events: a later event of an index replaces an earlier one
PatternByIndex(evs) ==
    [k \in {evs[j].index : j \in DOMAIN evs} |->
        LET j == CHOOSE j \in DOMAIN evs :
                    /\ evs[j].index = k
                    /\ \A h \in DOMAIN evs : evs[h].index = k => h <= j
        IN  [pattern |-> evs[j].pattern, strength |-> evs[j].strength]]

\* m.get(i) || m.get(i - 1), as an object with the field pat when one is found
GetEither(m, i, j) ==
    IF i \in DOMAIN m THEN [pat |-> m[i]]
    ELSE IF j \in DOMAIN m THEN [pat |-> m[j]]
    ELSE EmptyObj

\* 0.5 + Math.min(0.5, strength * 0.5)
ScoreNoHalf(strength) ==
    [num |-> strength.den + Min(strength.den, 2 * strength.num), den |-> 2 * strength.den]

Score(strength) ==
    [num |-> strength.den + Min(strength.den, strength.num), den |-> 2 * strength.den]

SignalAtRsiInclusive(cs, rsiSeries, ema12, ema26, patternByIndex, i) ==
    LET time == At(cs, i).time
        r == At(rsiSeries, i)
        up == At(ema12, i) * 1000 > At(ema26, i) * UpFactor
        down == At(ema12, i) * 1000 < At(ema26, i) * DownFactor
        got == GetEither(patternByIndex, i, i - 1)
        pat == got.pat
    IN  IF up /\ r >= BuyRsiLow /\ r < BuyRsiHigh /\ Has(got, "pat")
           /\ pat.pattern = "BullishEngulfing"
        THEN <<[index |-> i, time |-> time, type |-> "BUY", score |-> Score(pat.strength),
                reason |-> "Uptrend + RSI>55 + Bullish Engulfing"]>>
        ELSE IF down /\ r <= SellRsiHigh /\ r > SellRsiLow /\ Has(got, "pat")
           /\ pat.pattern = "BearishEngulfing"
        THEN <<[index |-> i, time |-> time, type |-> "SELL", score |-> Score(pat.strength),
                reason |-> "Downtrend + RSI<45 + Bearish Engulfing"]>>
        ELSE <<>>

\* the signals pushed by iteration i of the loop (none or one)
SignalAt(cs, rsiSeries, ema12, ema26, patternByIndex, i) ==
    LET time == At(cs, i).time
        r == At(rsiSeries, i)
        up == At(ema12, i) * 1000 > At(ema26, i) * UpFactor
        down == At(ema12, i) * 1000 < At(ema26, i) * DownFactor
        got == GetEither(patternByIndex, i, i - 1)
        pat == got.pat
    IN  IF up /\ r > BuyRsiLow /\ r < BuyRsiHigh /\ Has(got, "pat")
           /\ pat.pattern = "BullishEngulfing"
        THEN <<[index |-> i, time |-> time, type |-> "BUY", score |-> Score(pat.strength),
                reason |-> "Uptrend + RSI>55 + Bullish Engulfing"]>>
        ELSE IF down /\ r < SellRsiHigh /\ r > SellRsiLow /\ Has(got, "pat")
           /\ pat.pattern = "BearishEngulfing"
        THEN <<[index |-> i, time |-> time, type |-> "SELL", score |-> Score(pat.strength),
                reason |-> "Downtrend + RSI<45 + Bearish Engulfing"]>>
        ELSE <<>>

RECURSIVE SignalsLoopPrepend(_, _, _, _, _, _, _)
SignalsLoopPrepend(cs, rsiSeries, ema12, ema26, patternByIndex, i, sigs) ==
    IF i < Len(cs)
    THEN SignalsLoopPrepend(cs, rsiSeries, ema12, ema26, patternByIndex, i + 1,
                            SignalAt(cs, rsiSeries, ema12, ema26, patternByIndex, i) \o sigs)
    ELSE sigs

RECURSIVE SignalsLoop(_, _, _, _, _, _, _)
SignalsLoop(cs, rsiSeries, ema12, ema26, patternByIndex, i, sigs) ==
    IF i < Len(cs)
    THEN SignalsLoop(cs, rsiSeries, ema12, ema26, patternByIndex, i + 1,
                     sigs \o SignalAt(cs, rsiSeries, ema12, ema26, patternByIndex, i))
    ELSE sigs

computeSignalsNoWarmUp(cs, rsiSeries, ema12, ema26, patternEvents) ==
    SignalsLoop(cs, rsiSeries, ema12, ema26, PatternByIndex(patternEvents), WarmUp - 1, <<>>)

computeSignals(cs, rsiSeries, ema12, ema26, patternEvents) ==
    SignalsLoop(cs, rsiSeries, ema12, ema26, PatternByIndex(patternEvents), WarmUp, <<>>)

Overbought == 70
Oversold == 30

computeVisualsAndSignals(cs) ==
    LET closes == [k \in 1..Len(cs) |-> cs[k].close]
        times == [k \in 1..Len(cs) |-> cs[k].time]
        rsiSeries == computeRsiSeries(closes, 14)
        ema12 == computeEmaSeries(closes, 12)
        ema26 == computeEmaSeries(closes, 26)
        patternEvents == computePatternEvents(cs)
        sigs == computeSignals(cs, rsiSeries, ema12, ema26, patternEvents)
    IN  [visuals |-> [price |-> closes,
                      indicator |-> [rsi |-> rsiSeries, overbought |-> Overbought,
                                     oversold |-> Oversold],
                      trend |-> [ema12 |-> ema12, ema26 |-> ema26],
                      pattern |-> [events |-> patternEvents],
                      combined |-> [signals |-> sigs],
                      times |-> times],
         signals |-> sigs]

(***************************************************************************)
(* Pipeline nodes                                                          *)
(***************************************************************************)
\* An agent call either returns a value or throws an error with a message.
Msgs == {"boom"}
Returned(v) == [ok |-> TRUE, value |-> v]
Thrown(m) == [ok |-> FALSE, msg |-> m]

\* results of the agents imported from ../agents/index.js
IndicatorOuts == {[regime |-> "Bullish"]}
TrendOuts == {[trend |-> "Up"]}
RiskOuts == {[commentary |-> "ok"]}

\* `${stage}:${e?.message || e}`
ErrStr(stage, m) == <<stage, m>>

(***************************************************************************)
(* The optional enrichment of PatternAgent                                 *)
(***************************************************************************)
SummaryLimit == 200                    \* summary.slice(0, 200)
GeminiMsg == "gemini unavailable"      \* message of a failing generateResponse

\* process.env.PATTERN_AI === 'true' && process.env.GEMINI_API_KEY, and what
\* gemini.generateResponse does when called: a summary (its length, in
\* characters) or an exception
Enrichments ==
    {[enabled |-> FALSE, gemini |-> Thrown(GeminiMsg)],
     [enabled |-> TRUE, gemini |-> Returned(50)],
     [enabled |-> TRUE, gemini |-> Returned(250)],
     [enabled |-> TRUE, gemini |-> Thrown(GeminiMsg)]}

EnrichNoCatch(out, env) ==
    IF env.enabled
    THEN IF env.gemini.ok
         THEN Returned(("aiSummary" :> Min(env.gemini.value, SummaryLimit)) @@ out)
         ELSE env.gemini
    ELSE Returned(out)

\* if (enabled) { try { out.aiSummary = summary.slice(0, 200) } catch {} } return out
Enrich(out, env) ==
    IF env.enabled /\ env.gemini.ok
    THEN Returned(("aiSummary" :> Min(env.gemini.value, SummaryLimit)) @@ out)
    ELSE Returned(out)

\* what the promise of PatternAgent settles with: None is returned as it is,
\* the three patterns go through the enrichment
PatternAgentAsync(cs, env) ==
    LET out == PatternAgent(cs)
    IN  IF out.pattern = "None" THEN Returned(out) ELSE Enrich(out, env)

\* the outcome of awaiting the agent called by each node: its result, or an
\* exception (for PatternAgent and computeVisualsAndSignals, whose code reads
\* the fields of every candle, on a candle array with a malformed entry)
IndicatorOutcomes == {Returned(v) : v \in IndicatorOuts} \cup {Thrown(m) : m \in Msgs}
PatternOutcomes(cs) ==
    {PatternAgentAsync(cs, env) : env \in Enrichments} \cup {Thrown(m) : m \in Msgs}
TrendOutcomes == {Returned(v) : v \in TrendOuts} \cup {Thrown(m) : m \in Msgs}
RiskOutcomes == {Returned(v) : v \in RiskOuts} \cup {Thrown(m) : m \in Msgs}
VisualsOutcomes(cs) == {Returned(computeVisualsAndSignals(cs))} \cup {Thrown(m) : m \in Msgs}

indicatorNode(st, out) ==
    IF out.ok THEN [indicator |-> out.value]
    ELSE [errors |-> ErrorsOf(st) \o <<ErrStr("indicator", out.msg)>>]

patternNodeNoCatch(st, out) ==
    IF out.ok THEN [pattern |-> out.value]
    ELSE [rejected |-> out.msg]

patternNode(st, out) ==
    IF out.ok THEN [pattern |-> out.value]
    ELSE [errors |-> ErrorsOf(st) \o <<ErrStr("pattern", out.msg)>>]

trendNode(st, out) ==
    IF out.ok THEN [trend |-> out.value]
    ELSE [errors |-> ErrorsOf(st) \o <<ErrStr("trend", out.msg)>>]

riskNodeIndicatorOnly(st, out) ==
    IF Absent(st, "indicator") THEN EmptyObj
    ELSE IF out.ok THEN [risk |-> out.value]
    ELSE [errors |-> ErrorsOf(st) \o <<ErrStr("risk", out.msg)>>]

riskNode(st, out) ==
    IF Absent(st, "indicator") \/ Absent(st, "pattern") \/ Absent(st, "trend") THEN EmptyObj
    ELSE IF out.ok THEN [risk |-> out.value]
    ELSE [errors |-> ErrorsOf(st) \o <<ErrStr("risk", out.msg)>>]

visualsAndSignalsNodeGated(st, out) ==
    IF Absent(st, "risk") THEN EmptyObj
    ELSE IF out.ok THEN [visuals |-> out.value.visuals, signals |-> out.value.signals]
    ELSE [errors |-> ErrorsOf(st) \o <<ErrStr("visuals", out.msg)>>]

visualsAndSignalsNode(st, out) ==
    IF out.ok THEN [visuals |-> out.value.visuals, signals |-> out.value.signals]
    ELSE [errors |-> ErrorsOf(st) \o <<ErrStr("visuals", out.msg)>>]

\* A narrative is the sequence of its lines.
IncompleteMsg == <<[line |-> "Incomplete analysis - missing agent outputs"]>>
NoCandleMsg == <<[line |-> "No candle data available"]>>

\* the five lines joined by generateNarrative, in their order
Report(ctx, last) ==
    <<[line |-> "Time", of |-> last.time],
      [line |-> "Indicator", of |-> ctx.indicator],
      [line |-> "Pattern", of |-> ctx.pattern],
      [line |-> "Trend", of |-> ctx.trend],
      [line |-> "Risk", of |-> ctx.risk]>>

generateNarrativeIgnoringRisk(ctx) ==
    IF Absent(ctx, "indicator") \/ Absent(ctx, "pattern") \/ Absent(ctx, "trend")
    THEN IncompleteMsg
    ELSE IF Len(ctx.candles) = 0 THEN NoCandleMsg
    ELSE Report(ctx @@ ("risk" :> EmptyObj), At(ctx.candles, Len(ctx.candles) - 1))

generateNarrativePatternFirst(ctx) ==
    IF Absent(ctx, "indicator") \/ Absent(ctx, "pattern") \/ Absent(ctx, "trend")
       \/ Absent(ctx, "risk")
    THEN IncompleteMsg
    ELSE IF Len(ctx.candles) = 0 THEN NoCandleMsg
    ELSE LET r == Report(ctx, At(ctx.candles, Len(ctx.candles) - 1))
         IN  <<r[1], r[3], r[2], r[4], r[5]>>

generateNarrative(ctx) ==
    IF Absent(ctx, "indicator") \/ Absent(ctx, "pattern") \/ Absent(ctx, "trend")
       \/ Absent(ctx, "risk")
    THEN IncompleteMsg
    ELSE IF Len(ctx.candles) = 0 THEN NoCandleMsg
    ELSE Report(ctx, At(ctx.candles, Len(ctx.candles) - 1))

CtxFields == {"candles", "indicator", "pattern", "trend", "risk"}

narrativeNode(st) == [narrative |-> generateNarrative(Pick(st, CtxFields))]

(***************************************************************************)
(* runGraphPipeline                                                        *)
(***************************************************************************)
\* const base: GraphState = { candles, errors: [] }
Base(cs) == [candles |-> cs, errors |-> <<>>]

\* the three nodes are called, in order, when Promise.all's argument is built
FanOut ==
    /\ pc = "start"
    /\ state' = Base(candles)
    /\ called' = called \o <<"indicator", "pattern", "trend">>
    /\ pc' = "fanout"
    /\ UNCHANGED <<candles, oracle, serverVars, indRes, patRes, trRes, riskRes, vizRes, ret, helperVars>>

IndicatorSettles ==
    /\ pc = "fanout" /\ indRes = Pending
    /\ \E out \in IndicatorOutcomes : indRes' = indicatorNode(state, out)
    /\ UNCHANGED <<pc, candles, oracle, serverVars, patRes, trRes, riskRes, vizRes, state, called, ret,
                   helperVars>>

PatternSettles ==
    /\ pc = "fanout" /\ patRes = Pending
    /\ \E out \in PatternOutcomes(state.candles) : patRes' = patternNode(state, out)
    /\ UNCHANGED <<pc, candles, oracle, serverVars, indRes, trRes, riskRes, vizRes, state, called, ret,
                   helperVars>>

TrendSettles ==
    /\ pc = "fanout" /\ trRes = Pending
    /\ \E out \in TrendOutcomes : trRes' = trendNode(state, out)
    /\ UNCHANGED <<pc, candles, oracle, serverVars, indRes, patRes, riskRes, vizRes, state, called, ret,
                   helperVars>>

Merged1PatternErrorsFirst(base, ind, pat, tr) ==
    LET a == Assign(base, "indicator", ind, "indicator")
        b == Assign(a, "pattern", pat, "pattern")
        c == Assign(b, "trend", tr, "trend")
    IN  ("errors" :> (ErrorsOf(base) \o ErrorsOf(pat) \o ErrorsOf(ind) \o ErrorsOf(tr))) @@ c

\* merged1 = { ...base, indicator, pattern, trend, errors }
Merged1(base, ind, pat, tr) ==
    LET a == Assign(base, "indicator", ind, "indicator")
        b == Assign(a, "pattern", pat, "pattern")
        c == Assign(b, "trend", tr, "trend")
    IN  ("errors" :> (ErrorsOf(base) \o ErrorsOf(ind) \o ErrorsOf(pat) \o ErrorsOf(tr))) @@ c

\* merged2 = { ...merged1, risk, errors }
Merged2(merged1, res) ==
    ("errors" :> (ErrorsOf(merged1) \o ErrorsOf(res))) @@ Assign(merged1, "risk", res, "risk")

\* merged3 = { ...merged2, visuals, signals, errors }
Merged3(merged2, res) ==
    ("errors" :> (ErrorsOf(merged2) \o ErrorsOf(res)))
        @@ Assign(Assign(merged2, "visuals", res, "visuals"), "signals", res, "signals")

\* a node's promise rejected: the node let an exception escape
Rejected(res) == Has(res, "rejected")

JoinAndRiskAfterIndicator ==
    /\ pc = "fanout"
    /\ indRes # Pending
    /\ \E out \in RiskOutcomes :
         LET merged1 == Merged1(state, indRes, patRes, trRes)
             res == riskNode(merged1, out)
         IN  /\ riskRes' = res
             /\ state' = Merged2(merged1, res)
    /\ called' = Append(called, "risk")
    /\ pc' = "visuals"
    /\ UNCHANGED <<candles, oracle, serverVars, indRes, patRes, trRes, vizRes, ret, helperVars>>

\* Promise.all settles: it rejects, and the run with it, if a node rejected;
\* otherwise merged1; riskNode(merged1) is called and awaited; merged2
JoinAndRisk ==
    /\ pc = "fanout"
    /\ indRes # Pending /\ patRes # Pending /\ trRes # Pending
    /\ IF Rejected(indRes) \/ Rejected(patRes) \/ Rejected(trRes)
       THEN /\ pc' = "rejected"
            /\ UNCHANGED <<riskRes, state, called>>
       ELSE /\ \E out \in RiskOutcomes :
                 LET merged1 == Merged1(state, indRes, patRes, trRes)
                     res == riskNode(merged1, out)
                 IN  /\ riskRes' = res
                     /\ state' = Merged2(merged1, res)
            /\ called' = Append(called, "risk")
            /\ pc' = "visuals"
    /\ UNCHANGED <<candles, oracle, serverVars, indRes, patRes, trRes, vizRes, ret, helperVars>>

\* visualsAndSignalsNode(merged2) is called and awaited; merged3
Visuals ==
    /\ pc = "visuals"
    /\ \E out \in VisualsOutcomes(state.candles) :
         LET res == visualsAndSignalsNode(state, out)
         IN  /\ vizRes' = res
             /\ state' = Merged3(state, res)
    /\ called' = Append(called, "visuals")
    /\ pc' = "narrative"
    /\ UNCHANGED <<candles, oracle, serverVars, indRes, patRes, trRes, riskRes, ret, helperVars>>

\* narrativeNode(merged3) is called and awaited; finalState
Narrative ==
    /\ pc = "narrative"
    /\ state' = Assign(state, "narrative", narrativeNode(state), "narrative")
    /\ called' = Append(called, "narrative")
    /\ pc' = "return"
    /\ UNCHANGED <<candles, oracle, serverVars, indRes, patRes, trRes, riskRes, vizRes, ret, helperVars>>

\* the value the run resolves with
ReturnValue(cs, finalState) ==
    LET ctx == Pick(("candles" :> cs) @@ finalState, CtxFields)
        withNarrative ==
            [ctx |-> ctx,
             narrative |-> IF Has(finalState, "narrative") THEN finalState.narrative
                           ELSE generateNarrative(ctx)]
    IN  Assign(Assign(withNarrative, "visuals", finalState, "visuals"),
               "signals", finalState, "signals")

Return ==
    /\ pc = "return"
    /\ ret' = ReturnValue(candles, state)
    /\ pc' = "returned"
    /\ UNCHANGED <<candles, oracle, serverVars, indRes, patRes, trRes, riskRes, vizRes, state, called,
                   helperVars>>

\* the series the imported rsi/ema return when nothing is known about them
NeutralOracle(n) ==
    [rsi |-> [k \in 1..n |-> 50], ema12 |-> [k \in 1..n |-> 10000],
     ema26 |-> [k \in 1..n |-> 10000]]

PipeCandles == UNION {CandleSeqs(n, Prices) : n \in 0..MaxPipeLen}

(***************************************************************************)
(* Values of the server's analysis cache (src/server.ts)                   *)
(***************************************************************************)
MaxRequests == 3

\* caller 0 is the startup call of the listen callback, the others are requests
StartupCaller == 0
Requests == 1..MaxRequests
Callers == {StartupCaller} \cup Requests

\* null, and the object built by the run numbered r
Null == [null |-> TRUE, run |-> 0]
Analysis(r) == [null |-> FALSE, run |-> r]

\* what a caller got: nothing yet, the value generateAnalysis resolved with
\* (res.json), or the rejection (status 500)
NoResponse == [status |-> 0, body |-> Null]
Json(v) == [status |-> 200, body |-> v]
Failed == [status |-> 500, body |-> Null]

\* before holds the value of latestAnalysis when the caller's run started
IdleCall ==
    [st |-> "idle", kind |-> "none", arrivedAt |-> 0, run |-> 0, before |-> Null,
     response |-> NoResponse]

ServerIdle ==
    /\ latestAnalysis = Null
    /\ isAnalyzing = FALSE
    /\ calls = [c \in Callers |-> IdleCall]
    /\ runs = 0

HelpersIdle == patOut = Pending /\ events = <<>> /\ visOut = Pending

PipelineIdle ==
    /\ indRes = Pending /\ patRes = Pending /\ trRes = Pending
    /\ riskRes = Pending /\ vizRes = Pending
    /\ state = EmptyObj
    /\ called = <<>>
    /\ ret = Pending

Init ==
    /\ pc = "start"
    /\ candles \in PipeCandles
    /\ oracle = NeutralOracle(Len(candles))
    /\ PipelineIdle
    /\ HelpersIdle
    /\ ServerIdle

Next ==
    \/ FanOut
    \/ IndicatorSettles
    \/ PatternSettles
    \/ TrendSettles
    \/ JoinAndRisk
    \/ Visuals
    \/ Narrative
    \/ Return

Spec == Init /\ [][Next]_vars

\* every pending continuation of the run is eventually executed by the event loop
FairSpec == Spec /\ WF_vars(Next)

(***************************************************************************)
(* The pattern helpers on their own: PatternAgent and computePatternEvents *)
(* applied to every candle sequence of at most MaxLen candles              *)
(***************************************************************************)
\* prev = {open 1, close 0.9}, last = {open 0.89, close 1.02}
ExampleCandles == <<Candle(0, 10000, 9000), Candle(1, 8900, 10200)>>

PatternCandles == UNION {CandleSeqs(n, Prices) : n \in 0..MaxLen} \cup {ExampleCandles}

InitPattern ==
    /\ pc = "agent"
    /\ candles \in PatternCandles
    /\ oracle = NeutralOracle(Len(candles))
    /\ PipelineIdle
    /\ HelpersIdle
    /\ ServerIdle

RunPatternAgent ==
    /\ pc = "agent"
    /\ \E env \in Enrichments :
         LET settled == PatternAgentAsync(candles, env)
         IN  patOut' = IF settled.ok THEN settled.value ELSE [threw |-> settled.msg]
    /\ pc' = "events"
    /\ UNCHANGED <<candles, oracle, serverVars, pipeVars, events, visOut>>

RunPatternEvents ==
    /\ pc = "events"
    /\ events' = computePatternEvents(candles)
    /\ pc' = "patternDone"
    /\ UNCHANGED <<candles, oracle, serverVars, pipeVars, patOut, visOut>>

NextPattern == RunPatternAgent \/ RunPatternEvents

SpecPattern == InitPattern /\ [][NextPattern]_vars

(***************************************************************************)
(* computeVisualsAndSignals on its own: candle sequences of at most MaxN   *)
(* candles; the candles and the series vary around the warm-up index and   *)
(* are a flat rising market before it                                      *)
(***************************************************************************)
\* open/close of the candles that vary: bearish, bullish, doji
SignalShapes == {<<10100, 10000>>, <<10000, 10100>>, <<10000, 10001>>}
RisingShape == <<10000, 10100>>

\* ema12, ema26, rsi of the indices that vary: inside a band, on the edge of the
\* RSI band, on the edge of the trend deadband
SignalColumns ==
    {[ema12 |-> 10020, ema26 |-> 10000, rsi |-> 60],
     [ema12 |-> 10020, ema26 |-> 10000, rsi |-> 55],
     [ema12 |-> 10010, ema26 |-> 10000, rsi |-> 60],
     [ema12 |-> 9980, ema26 |-> 10000, rsi |-> 40]}
NeutralColumn == [ema12 |-> 10000, ema26 |-> 10000, rsi |-> 50]

\* the first source index whose candle varies, and whose series values vary
ShapesFrom == WarmUp - 2
ColumnsFrom == WarmUp - 1

Varying(n, from) == {k \in 1..n : k - 1 >= from}

SignalCandles(n) ==
    { [k \in 1..n |-> IF k - 1 >= ShapesFrom THEN Candle(k - 1, sh[k][1], sh[k][2])
                                            ELSE Candle(k - 1, RisingShape[1], RisingShape[2])] :
        sh \in [Varying(n, ShapesFrom) -> SignalShapes] }

SignalOracles(n) ==
    { [rsi |-> [k \in 1..n |-> IF k - 1 >= ColumnsFrom THEN col[k].rsi ELSE NeutralColumn.rsi],
       ema12 |-> [k \in 1..n |-> IF k - 1 >= ColumnsFrom THEN col[k].ema12
                                                         ELSE NeutralColumn.ema12],
       ema26 |-> [k \in 1..n |-> IF k - 1 >= ColumnsFrom THEN col[k].ema26
                                                         ELSE NeutralColumn.ema26]] :
        col \in [Varying(n, ColumnsFrom) -> SignalColumns] }

InitSignals ==
    /\ pc = "signals"
    /\ \E n \in 0..MaxN :
         /\ candles \in SignalCandles(n)
         /\ oracle \in SignalOracles(n)
    /\ PipelineIdle
    /\ HelpersIdle
    /\ ServerIdle

RunVisualsAndSignals ==
    /\ pc = "signals"
    /\ visOut' = computeVisualsAndSignals(candles)
    /\ pc' = "signalsDone"
    /\ UNCHANGED <<candles, oracle, serverVars, pipeVars, patOut, events>>

NextSignals == RunVisualsAndSignals

SpecSignals == InitSignals /\ [][NextSignals]_vars

(***************************************************************************)
(* Properties of a pipeline run                                            *)
(***************************************************************************)
ResultFields == {"indicator", "pattern", "trend", "risk"}

\* the stages whose agent threw on this run
IndicatorFailed == Has(indRes, "errors")
PatternFailed == Has(patRes, "errors")
TrendFailed == Has(trRes, "errors")
RiskFailed == Has(riskRes, "errors")
VisualsFailed == Has(vizRes, "errors")
UpstreamSucceeded == ~IndicatorFailed /\ ~PatternFailed /\ ~TrendFailed

FailedStages ==
    {s \in {"indicator", "pattern", "trend", "risk", "visuals"} :
        \/ s = "indicator" /\ IndicatorFailed
        \/ s = "pattern" /\ PatternFailed
        \/ s = "trend" /\ TrendFailed
        \/ s = "risk" /\ RiskFailed
        \/ s = "visuals" /\ VisualsFailed}

\* C1 as stated: on every returned run the risk result is present if and only
\* if the indicator, pattern and trend stages all succeeded.
RiskPresentIffUpstreamSucceeded ==
    pc = "returned" => (Has(ret.ctx, "risk") <=> UpstreamSucceeded)

\* C1 as amended: on every returned run the risk result is present if and only
\* if the indicator, pattern and trend stages all succeeded and the risk stage
\* itself did not throw.
RiskPresentIffUpstreamAndRiskSucceeded ==
    pc = "returned" => (Has(ret.ctx, "risk") <=> (UpstreamSucceeded /\ ~RiskFailed))

\* C1 witness: a returned run on which all three upstream stages succeeded and
\* the risk result is present.
RiskPresentReached ==
    pc = "returned" /\ UpstreamSucceeded /\ Has(ret.ctx, "risk")

\* C2: on every returned run, if any of the indicator, pattern, trend or risk
\* results is absent from the context, the narrative is the fixed
\* incomplete-analysis string.
NarrativeIncompleteWhenResultAbsent ==
    (pc = "returned" /\ \E f \in ResultFields : Absent(ret.ctx, f))
        => ret.narrative = <<[line |-> "Incomplete analysis - missing agent outputs"]>>

\* C2 witness: a returned run on which only the risk result is absent and the
\* narrative is the incomplete-analysis string.
NarrativeIncompleteReached ==
    /\ pc = "returned"
    /\ Absent(ret.ctx, "risk")
    /\ \A f \in ResultFields \ {"risk"} : Has(ret.ctx, f)
    /\ ret.narrative = <<[line |-> "Incomplete analysis - missing agent outputs"]>>

\* C6 as stated: the value a run returns contains the accumulated error list.
ReturnCarriesErrors ==
    pc = "returned" => (Has(ret, "errors") /\ ret.errors = state.errors)

\* C7 as stated: the accumulated error list of a finished run has exactly one
\* entry per failed stage and no entry twice.
EachFailureRecordedOnce ==
    pc = "returned" =>
        /\ Len(state.errors) = Cardinality(FailedStages)
        /\ \A s \in FailedStages :
              Cardinality({k \in DOMAIN state.errors : state.errors[k][1] = s}) = 1
        /\ \A j, k \in DOMAIN state.errors : state.errors[j] = state.errors[k] => j = k

AllNodes == <<"indicator", "pattern", "trend", "risk", "visuals", "narrative">>

\* the fields a run's result lacks are those of the failed stages and, when an
\* upstream stage failed, the gated risk result
FailuresLeaveOwnFieldAbsent ==
    /\ Absent(ret.ctx, "indicator") <=> IndicatorFailed
    /\ Absent(ret.ctx, "pattern") <=> PatternFailed
    /\ Absent(ret.ctx, "trend") <=> TrendFailed
    /\ Absent(ret.ctx, "risk") <=> (RiskFailed \/ ~UpstreamSucceeded)
    /\ Absent(ret, "visuals") <=> VisualsFailed
    /\ Absent(ret, "signals") <=> VisualsFailed

\* C8: whatever the stages throw, the run eventually returns (it never
\* rejects), having called every node, and a failed stage has only left its
\* result field absent.
NoStageFailureIsFatal ==
    <>(pc = "returned" /\ called = AllNodes /\ FailuresLeaveOwnFieldAbsent)

\* C8 witness: a run on which the indicator, pattern, trend and visuals stages
\* all threw (risk is then gated), and which returned after calling every node.
AllStagesFailedReturned ==
    /\ pc = "returned"
    /\ IndicatorFailed /\ PatternFailed /\ TrendFailed /\ VisualsFailed
    /\ called = AllNodes

(***************************************************************************)
(* Properties of computeSignals                                            *)
(***************************************************************************)
EventAt(evs, i, p) == \E j \in DOMAIN evs : evs[j].index = i /\ evs[j].pattern = p

\* the rule table of the signal scan at index i, over the series and events
\* that were given to computeSignals
BuyRule(v, i) ==
    /\ At(v.trend.ema12, i) * 1000 > At(v.trend.ema26, i) * 1001
    /\ 55 < At(v.indicator.rsi, i) /\ At(v.indicator.rsi, i) < 70
    /\ \/ EventAt(v.pattern.events, i, "BullishEngulfing")
       \/ EventAt(v.pattern.events, i - 1, "BullishEngulfing")

SellRule(v, i) ==
    /\ At(v.trend.ema12, i) * 1000 < At(v.trend.ema26, i) * 999
    /\ 30 < At(v.indicator.rsi, i) /\ At(v.indicator.rsi, i) < 45
    /\ \/ EventAt(v.pattern.events, i, "BearishEngulfing")
       \/ EventAt(v.pattern.events, i - 1, "BearishEngulfing")

SignalAtIndex(sigs, i, t) == \E k \in DOMAIN sigs : sigs[k].index = i /\ sigs[k].type = t

\* C3: every emitted signal satisfies the preconditions of its rule at its
\* own index.
SignalsSatisfyTheirRule ==
    pc = "signalsDone" =>
        \A k \in DOMAIN visOut.signals :
            LET s == visOut.signals[k]
            IN  /\ s.type = "BUY" => BuyRule(visOut.visuals, s.index)
                /\ s.type = "SELL" => SellRule(visOut.visuals, s.index)

\* C3 witness: a scan that emitted a BUY and a SELL.
BuyAndSellEmitted ==
    /\ pc = "signalsDone"
    /\ \E k \in DOMAIN visOut.signals : visOut.signals[k].type = "BUY"
    /\ \E k \in DOMAIN visOut.signals : visOut.signals[k].type = "SELL"

\* C4 as stated: at every index from 26 to n-1 a BUY is emitted if and only if
\* the BUY rule holds there, and a SELL if and only if the SELL rule holds,
\* whatever other pattern event the index itself carries.
SignalIffRule ==
    pc = "signalsDone" =>
        \A i \in 26..(Len(candles) - 1) :
            /\ SignalAtIndex(visOut.signals, i, "BUY") <=> BuyRule(visOut.visuals, i)
            /\ SignalAtIndex(visOut.signals, i, "SELL") <=> SellRule(visOut.visuals, i)

\* C5: no signal has an index below 26, and 26 or fewer candles give no
\* signal at all.
NoSignalBeforeWarmUp ==
    pc = "signalsDone" =>
        /\ \A k \in DOMAIN visOut.signals : visOut.signals[k].index >= 26
        /\ Len(candles) <= 26 => visOut.signals = <<>>

\* C5 witness: 26 candles whose last index satisfies the whole BUY rule, and
\* an empty signal list.
WarmUpSuppressedBuy ==
    /\ pc = "signalsDone"
    /\ Len(candles) = 26
    /\ BuyRule(visOut.visuals, 25)
    /\ visOut.signals = <<>>

(***************************************************************************)
(* Properties of the pattern helpers                                       *)
(***************************************************************************)
\* C9: on a candle sequence of length 0 or 1 PatternAgent returns None with
\* strength 0.
ShortInputIsNone ==
    (pc \in {"events", "patternDone"} /\ Len(candles) < 2)
        => (patOut.pattern = "None" /\ patOut.strength.num = 0)

\* C9 witness: PatternAgent has returned None for a single candle that is
\* itself Doji-shaped.
SingleDojiIsNone ==
    /\ pc = "patternDone"
    /\ Len(candles) = 1
    /\ 1000 * Abs(candles[1].close - candles[1].open) <= candles[1].close
    /\ patOut.pattern = "None"

\* the pair (i-1, i) meets the Doji condition and an engulfing condition
DojiAndEngulfing(cs, i) ==
    LET prev == At(cs, i - 1)
        last == At(cs, i)
        engulfs == /\ Min(last.open, last.close) <= Min(prev.open, prev.close)
                   /\ Max(last.open, last.close) >= Max(prev.open, prev.close)
    IN  /\ 1000 * Abs(last.close - last.open) <= last.close
        /\ engulfs
        /\ \/ last.close > last.open /\ prev.close < prev.open
           \/ last.close < last.open /\ prev.close > prev.open

IsDojiResult(r) == r.pattern = "Doji" /\ 5 * r.strength.num = 2 * r.strength.den

\* C10: a candle meeting the Doji condition and an engulfing condition is
\* Doji with strength 0.4 for PatternAgent (the last pair) and for
\* computePatternEvents (every pair), never an engulfing pattern.
DojiBeforeEngulfing ==
    pc = "patternDone" =>
        /\ (Len(candles) >= 2 /\ DojiAndEngulfing(candles, Len(candles) - 1))
              => IsDojiResult(patOut)
        /\ \A i \in 1..(Len(candles) - 1) :
              DojiAndEngulfing(candles, i) =>
                 \A j \in DOMAIN events : events[j].index = i => IsDojiResult(events[j])
        /\ \A i \in 1..(Len(candles) - 1) :
              DojiAndEngulfing(candles, i) => \E j \in DOMAIN events : events[j].index = i

\* C10 witness: the last pair meets both conditions, in the bullish and in
\* the bearish way at two indices, and both helpers answered Doji.
DojiChosenOverEngulfing ==
    /\ pc = "patternDone"
    /\ Len(candles) >= 3
    /\ DojiAndEngulfing(candles, Len(candles) - 1)
    /\ DojiAndEngulfing(candles, Len(candles) - 2)
    /\ patOut.pattern = "Doji"
    /\ \E j \in DOMAIN events : events[j].index = Len(candles) - 1 /\ events[j].pattern = "Doji"

Engulfings == {"BullishEngulfing", "BearishEngulfing"}

\* 0 <= strength <= 1, with a denominator that is not zero
InUnitInterval(q) == q.den > 0 /\ 0 <= q.num /\ q.num <= q.den

\* min(1, lastBody / (prevBody + 1e-9)) of the pair (i-1, i), in ticks
ExpectedEngulfStrength(cs, i) ==
    LET lastBody == Abs(At(cs, i).close - At(cs, i).open)
        prevBody == Abs(At(cs, i - 1).close - At(cs, i - 1).open)
        den == prevBody * 10^5 + 1
    IN  [num |-> IF lastBody * 10^5 <= den THEN lastBody * 10^5 ELSE den, den |-> den]

\* C11: every strength returned by PatternAgent and carried by an event of
\* computePatternEvents lies in [0,1], and an engulfing strength is
\* min(1, lastBody/(prevBody+1e-9)), whose denominator is never zero.
StrengthInUnitInterval ==
    pc = "patternDone" =>
        /\ InUnitInterval(patOut.strength)
        /\ \A j \in DOMAIN events : InUnitInterval(events[j].strength)
        /\ patOut.pattern \in Engulfings
              => patOut.strength = ExpectedEngulfStrength(candles, Len(candles) - 1)
        /\ \A j \in DOMAIN events :
              events[j].pattern \in Engulfings
                 => events[j].strength = ExpectedEngulfStrength(candles, events[j].index)

\* C11 witness: PatternAgent returned an engulfing whose ratio exceeds 1 and
\* is capped at 1, and an earlier event is an engulfing of equal bodies, whose
\* strength is just below 1.
EngulfStrengthCapped ==
    /\ pc = "patternDone"
    /\ patOut.pattern \in Engulfings
    /\ patOut.strength.num = patOut.strength.den
    /\ Abs(At(candles, Len(candles) - 1).close - At(candles, Len(candles) - 1).open)
          > Abs(At(candles, Len(candles) - 2).close - At(candles, Len(candles) - 2).open)
    /\ \E j \in DOMAIN events :
          events[j].pattern \in Engulfings /\ events[j].strength.num < events[j].strength.den

(***************************************************************************)
(* Properties of the enrichment and of the visuals stage in a run          *)
(***************************************************************************)
\* C12: the enrichment never influences the classification: the pattern
\* result of a run has the pattern and strength PatternAgent settles with
\* under every enrichment (disabled, succeeding, throwing), PatternAgent never
\* fails because of it, only aiSummary differs, and no enrichment failure is
\* in the run's error list.
EnrichmentNeverInfluences ==
    pc = "returned" =>
        /\ \A k \in DOMAIN state.errors : state.errors[k][2] # "gemini unavailable"
        /\ Has(ret.ctx, "pattern") =>
              \A env \in Enrichments :
                 LET settled == PatternAgentAsync(candles, env)
                 IN  /\ settled.ok
                     /\ settled.value.pattern = ret.ctx.pattern.pattern
                     /\ settled.value.strength = ret.ctx.pattern.strength
                     /\ DOMAIN settled.value \ {"aiSummary"}
                           = DOMAIN ret.ctx.pattern \ {"aiSummary"}

\* C12 witness: a returned run whose pattern result is an engulfing carrying
\* a summary cut to 200 characters.
EnrichedEngulfingReturned ==
    /\ pc = "returned"
    /\ Has(ret.ctx, "pattern")
    /\ ret.ctx.pattern.pattern \in Engulfings
    /\ Has(ret.ctx.pattern, "aiSummary")
    /\ ret.ctx.pattern.aiSummary = 200

\* C13: the visuals/signals stage is called on every run, and unless it throws
\* itself the visuals and signals returned are those computed from the raw
\* candles alone, whichever of the indicator, pattern, trend and risk stages
\* failed: two runs on the same candles return the same visuals and signals.
SignalsDependOnlyOnCandles ==
    pc = "returned" =>
        /\ \E k \in DOMAIN called : called[k] = "visuals"
        /\ ~VisualsFailed =>
              /\ Has(ret, "visuals") /\ Has(ret, "signals")
              /\ ret.visuals = computeVisualsAndSignals(candles).visuals
              /\ ret.signals = computeVisualsAndSignals(candles).signals

\* C13 witness: a returned run on which the indicator stage failed (and risk
\* was gated) and which carries visuals with a pattern event.
VisualsDespiteFailures ==
    /\ pc = "returned"
    /\ IndicatorFailed /\ Absent(ret.ctx, "risk")
    /\ Has(ret, "visuals") /\ Has(ret, "signals")
    /\ Len(ret.visuals.pattern.events) > 0

(***************************************************************************)
(* Further properties of computeSignals                                    *)
(***************************************************************************)
\* C14: the signal list is ordered by strictly increasing index, so it holds
\* at most one signal per candle index (never a BUY and a SELL at one index).
OneSignalPerIndexInOrder ==
    pc = "signalsDone" =>
        \A j, k \in DOMAIN visOut.signals :
            j < k => visOut.signals[j].index < visOut.signals[k].index

\* C14 witness: a scan that emitted signals at two indices.
TwoSignalsEmitted ==
    /\ pc = "signalsDone"
    /\ Len(visOut.signals) = 2
    /\ visOut.signals[1].index = 26 /\ visOut.signals[2].index = 27

(***************************************************************************)
(* Further properties of the pattern helpers                               *)
(***************************************************************************)
NotDoji(c) == ~(1000 * Abs(c.close - c.open) <= c.close)

Contains(last, prev) ==
    /\ Min(last.open, last.close) <= Min(prev.open, prev.close)
    /\ Max(last.open, last.close) >= Max(prev.open, prev.close)

\* C15: when the last of at least two candles is not a Doji, PatternAgent
\* returns BullishEngulfing exactly when the last candle is bullish, the
\* previous bearish and the last body range contains the previous one,
\* BearishEngulfing exactly in the mirrored case, and None with strength 0
\* otherwise; prev = {1, 0.9}, last = {0.89, 1.02} is BullishEngulfing with
\* strength 1.
EngulfingClassification ==
    (pc = "patternDone" /\ Len(candles) >= 2 /\ NotDoji(At(candles, Len(candles) - 1))) =>
        LET prev == At(candles, Len(candles) - 2)
            last == At(candles, Len(candles) - 1)
            bull == last.close > last.open /\ prev.close < prev.open /\ Contains(last, prev)
            bear == last.close < last.open /\ prev.close > prev.open /\ Contains(last, prev)
        IN  /\ patOut.pattern = "BullishEngulfing" <=> bull
            /\ patOut.pattern = "BearishEngulfing" <=> bear
            /\ (~bull /\ ~bear) => (patOut.pattern = "None" /\ patOut.strength.num = 0)
            /\ (prev.open = 10000 /\ prev.close = 9000 /\ last.open = 8900
                    /\ last.close = 10200)
                 => (patOut.pattern = "BullishEngulfing"
                       /\ patOut.strength.num = patOut.strength.den)

\* C15 witness: PatternAgent has answered BullishEngulfing on the example
\* pair prev = {1, 0.9}, last = {0.89, 1.02}.
ExampleIsBullishEngulfing ==
    /\ pc = "patternDone"
    /\ Len(candles) = 2
    /\ candles[1].open = 10000 /\ candles[1].close = 9000
    /\ candles[2].open = 8900 /\ candles[2].close = 10200
    /\ patOut.pattern = "BullishEngulfing"

(***************************************************************************)
(* Further properties of a pipeline run                                    *)
(***************************************************************************)
AllResultsPresent == \A f \in ResultFields : Has(ret.ctx, f)

\* the narrative is the report: five lines, time, indicator, pattern, trend, risk
IsFiveLineReport(n) ==
    /\ Len(n) = 5
    /\ n[1].line = "Time" /\ n[2].line = "Indicator" /\ n[3].line = "Pattern"
    /\ n[4].line = "Trend" /\ n[5].line = "Risk"

\* C16 as stated: whenever all four results are present the narrative is the
\* five-line report, for every candle sequence, an empty one included.
FiveLineReportWhenAllPresent ==
    (pc = "returned" /\ AllResultsPresent) => IsFiveLineReport(ret.narrative)

\* C16 as amended: whenever all four results are present the narrative is the
\* five-line report if there is at least one candle, and the single line
\* 'No candle data available' if the candle sequence is empty.
FiveLineReportWhenAllPresentAndCandles ==
    (pc = "returned" /\ AllResultsPresent) =>
        IF Len(candles) = 0
        THEN ret.narrative = <<[line |-> "No candle data available"]>>
        ELSE /\ IsFiveLineReport(ret.narrative)
             /\ ret.narrative[1].of = At(candles, Len(candles) - 1).time
             /\ ret.narrative[2].of = ret.ctx.indicator
             /\ ret.narrative[3].of = ret.ctx.pattern
             /\ ret.narrative[4].of = ret.ctx.trend
             /\ ret.narrative[5].of = ret.ctx.risk

\* C16 witness: a returned run with candles, all four results and the
\* five-line report.
FiveLineReportReached ==
    /\ pc = "returned"
    /\ AllResultsPresent
    /\ Len(candles) > 0
    /\ IsFiveLineReport(ret.narrative)

Called(node) == \E k \in DOMAIN called : called[k] = node

\* C17: the stages of a run are ordered: riskNode is called only after the
\* indicator, pattern and trend nodes have all settled, visualsAndSignalsNode
\* only after riskNode has settled, narrativeNode only after that, and the
\* nodes are called in the order indicator, pattern, trend, risk, visuals,
\* narrative.
StagesOrdered ==
    /\ Called("risk") => (indRes # Pending /\ patRes # Pending /\ trRes # Pending)
    /\ Called("visuals") => (Called("risk") /\ riskRes # Pending)
    /\ Called("narrative") => (Called("visuals") /\ vizRes # Pending)
    /\ Len(called) <= Len(AllNodes)
    /\ \A k \in DOMAIN called : called[k] = AllNodes[k]

\* C17 witness: riskNode has been called, and has failed, after the three
\* upstream nodes settled, and the visuals node has not been called yet.
RiskCalledAfterJoin ==
    /\ pc = "visuals"
    /\ called = <<"indicator", "pattern", "trend", "risk">>
    /\ indRes # Pending /\ patRes # Pending /\ trRes # Pending
    /\ RiskFailed

IsUpstreamError(e) == e[1] \in {"indicator", "pattern", "trend"}

\* what a settled node may hold: its own result field, or an error list
OwnFieldOnly(res, f) == res # Pending => (DOMAIN res = {f} \/ DOMAIN res = {"errors"})

\* C18: in whatever order the indicator, pattern and trend nodes settle, each
\* leaves the shared state and the candles alone and yields only its own
\* field (or an error), and the merged state holds exactly the three nodes'
\* results and their errors in the fixed order indicator, pattern, trend.
MergeIndependentOfOrder ==
    /\ pc = "fanout" =>
          /\ state = [candles |-> candles, errors |-> <<>>]
          /\ OwnFieldOnly(indRes, "indicator")
          /\ OwnFieldOnly(patRes, "pattern")
          /\ OwnFieldOnly(trRes, "trend")
    /\ pc = "visuals" =>
          /\ state.candles = candles
          /\ Pick(state, {"indicator"}) = Pick(indRes, {"indicator"})
          /\ Pick(state, {"pattern"}) = Pick(patRes, {"pattern"})
          /\ Pick(state, {"trend"}) = Pick(trRes, {"trend"})
          /\ SelectSeq(state.errors, IsUpstreamError)
                = ErrorsOf(indRes) \o ErrorsOf(patRes) \o ErrorsOf(trRes)
          /\ \A j, k \in DOMAIN state.errors :
                (j < k /\ IsUpstreamError(state.errors[j]) /\ IsUpstreamError(state.errors[k]))
                   => \/ state.errors[j][1] = "indicator" /\ state.errors[k][1] # "indicator"
                      \/ state.errors[j][1] = "pattern" /\ state.errors[k][1] = "trend"

\* C18 witness: the three nodes have been merged with the indicator and the
\* pattern node failed and the trend result present.
TwoFailuresMerged ==
    /\ pc = "visuals"
    /\ IndicatorFailed /\ PatternFailed /\ ~TrendFailed
    /\ Has(state, "trend") /\ Absent(state, "indicator") /\ Absent(state, "pattern")
    /\ Len(state.errors) = 2

EventsAtIndex(evs, i) == {j \in DOMAIN evs : evs[j].index = i}

\* C19: computePatternEvents has an event (i, P, s) exactly when PatternAgent
\* on the prefix ending at i returns (P, s) with P not None, and no event at
\* i exactly when it returns None; at most one event per index, none at
\* index 0.
EventsAgreeWithPatternAgent ==
    pc = "patternDone" =>
        /\ \A j \in DOMAIN events : 1 <= events[j].index /\ events[j].index < Len(candles)
        /\ \A j, k \in DOMAIN events : events[j].index = events[k].index => j = k
        /\ \A i \in 1..(Len(candles) - 1) :
              LET r == PatternAgent(SubSeq(candles, 1, i + 1))
              IN  /\ r.pattern = "None" <=> EventsAtIndex(events, i) = {}
                  /\ \A j \in EventsAtIndex(events, i) :
                        events[j].pattern = r.pattern /\ events[j].strength = r.strength
        /\ Len(candles) >= 2 =>
              /\ patOut.pattern = "None" <=> EventsAtIndex(events, Len(candles) - 1) = {}
              /\ \A j \in EventsAtIndex(events, Len(candles) - 1) :
                    events[j].pattern = patOut.pattern /\ events[j].strength = patOut.strength

\* C19 witness: three candles with an engulfing event at index 1, a Doji at
\* no index and no event at index 2, where PatternAgent answered None.
EventAtOneNoneAtTwo ==
    /\ pc = "patternDone"
    /\ Len(candles) = 3
    /\ Len(events) = 1
    /\ events[1].index = 1 /\ events[1].pattern \in Engulfings
    /\ patOut.pattern = "None"
    /\ PatternAgent(SubSeq(candles, 1, 2)).pattern = events[1].pattern

\* the event that triggered a signal at index i: the one at i when there is
\* one, otherwise the one at i - 1
TriggeringEvents(evs, i) ==
    IF EventsAtIndex(evs, i) # {} THEN EventsAtIndex(evs, i) ELSE EventsAtIndex(evs, i - 1)

\* q = 0.5 + min(0.5, strength * 0.5), as fractions
IsScoreOf(q, strength) ==
    /\ q.den = 2 * strength.den
    /\ q.num = strength.den + (IF strength.num <= strength.den THEN strength.num
                                                               ELSE strength.den)

\* C20: every emitted signal has score 0.5 + min(0.5, strength * 0.5) for the
\* strength of the engulfing event that triggered it (the event at its index
\* when there is one, otherwise the event at the index before), so every
\* score lies in [0.5, 1].
ScoreFromTriggeringEvent ==
    pc = "signalsDone" =>
        \A k \in DOMAIN visOut.signals :
            LET s == visOut.signals[k]
                evs == visOut.visuals.pattern.events
                trig == TriggeringEvents(evs, s.index)
            IN  /\ Cardinality(trig) = 1
                /\ \A j \in trig :
                      /\ evs[j].pattern \in Engulfings
                      /\ IsScoreOf(s.score, evs[j].strength)
                /\ s.score.den > 0
                /\ 2 * s.score.num >= s.score.den
                /\ s.score.num <= s.score.den

\* C20 witness: two signals with a score below 1, the first triggered by the
\* event at its own index, the second by the event at the index before.
ScoredByBothEvents ==
    /\ pc = "signalsDone"
    /\ Len(visOut.signals) = 2
    /\ EventsAtIndex(visOut.visuals.pattern.events, visOut.signals[1].index) # {}
    /\ EventsAtIndex(visOut.visuals.pattern.events, visOut.signals[2].index) = {}
    /\ \A k \in 1..2 : visOut.signals[k].score.num < visOut.signals[k].score.den

(***************************************************************************)
(* Alignment of the visuals bundle                                         *)
(***************************************************************************)
\* C21: for n candles the price, times, RSI, EMA12 and EMA26 arrays have n
\* entries, entry i taken from the candle prefix ending at i; every pattern
\* event index is in [1, n-1]; every signal index is in [26, n-1] and its
\* time is the time of the candle at that index; visuals.combined.signals is
\* the returned signal list.
VisualsAligned ==
    pc = "signalsDone" =>
        LET n == Len(candles)
            v == visOut.visuals
        IN  /\ DOMAIN v.price = 1..n /\ DOMAIN v.times = 1..n
            /\ DOMAIN v.indicator.rsi = 1..n
            /\ DOMAIN v.trend.ema12 = 1..n /\ DOMAIN v.trend.ema26 = 1..n
            /\ \A k \in 1..n :
                  /\ v.price[k] = candles[k].close
                  /\ v.times[k] = candles[k].time
                  /\ v.indicator.rsi[k] = oracle.rsi[k]
                  /\ v.trend.ema12[k] = oracle.ema12[k]
                  /\ v.trend.ema26[k] = oracle.ema26[k]
            /\ \A j \in DOMAIN v.pattern.events :
                  1 <= v.pattern.events[j].index /\ v.pattern.events[j].index <= n - 1
            /\ \A k \in DOMAIN visOut.signals :
                  /\ 26 <= visOut.signals[k].index /\ visOut.signals[k].index <= n - 1
                  /\ visOut.signals[k].time = At(candles, visOut.signals[k].index).time
            /\ v.combined.signals = visOut.signals

\* C21 witness: a bundle for more than 26 candles whose RSI series is not
\* constant, with a pattern event and a signal.
AlignedBundleWithSignal ==
    /\ pc = "signalsDone"
    /\ Len(candles) > 26
    /\ Len(visOut.visuals.price) = Len(candles)
    /\ \E k \in DOMAIN visOut.visuals.indicator.rsi :
          visOut.visuals.indicator.rsi[k] # visOut.visuals.indicator.rsi[1]
    /\ visOut.visuals.pattern.events # <<>>
    /\ visOut.visuals.combined.signals # <<>>

(***************************************************************************)
(* The server's analysis cache: generateAnalysis and its callers           *)
(* (src/server.ts).  JavaScript runs a handler without interruption up to  *)
(* its next await, so each action is one such stretch.                     *)
(***************************************************************************)
generateAnalysisNoGuard(c, kind, latest) ==
    /\ isAnalyzing' = TRUE
    /\ runs' = runs + 1
    /\ latestAnalysis' = latest
    /\ calls' = [calls EXCEPT ![c] =
                    [st |-> "pipeline", kind |-> kind, arrivedAt |-> runs, run |-> runs + 1,
                     before |-> latest, response |-> NoResponse]]

\* generateAnalysis up to its first await, called by c when latestAnalysis
\* holds latest: with the flag set it resolves with latestAnalysis at once,
\* otherwise it sets the flag and awaits runPipeline
generateAnalysis(c, kind, latest) ==
    IF isAnalyzing
    THEN /\ latestAnalysis' = latest
         /\ calls' = [calls EXCEPT ![c] =
                         [st |-> "responded", kind |-> kind, arrivedAt |-> runs, run |-> 0,
                          before |-> latest, response |-> Json(latest)]]
         /\ UNCHANGED <<isAnalyzing, runs>>
    ELSE /\ isAnalyzing' = TRUE
         /\ runs' = runs + 1
         /\ latestAnalysis' = latest
         /\ calls' = [calls EXCEPT ![c] =
                         [st |-> "pipeline", kind |-> kind, arrivedAt |-> runs, run |-> runs + 1,
                          before |-> latest, response |-> NoResponse]]

\* app.listen callback: the initial analysis
Startup ==
    /\ pc = "server"
    /\ calls[StartupCaller].st = "idle"
    /\ generateAnalysis(StartupCaller, "startup", latestAnalysis)
    /\ UNCHANGED <<pc, candles, oracle, pipeVars, helperVars>>

\* GET /api/analysis
GetAnalysis(c) ==
    /\ pc = "server"
    /\ calls[StartupCaller].st # "idle"
    /\ calls[c].st = "idle"
    /\ generateAnalysis(c, "analysis", latestAnalysis)
    /\ UNCHANGED <<pc, candles, oracle, pipeVars, helperVars>>

\* GET /api/analysis/fresh: latestAnalysis = null, then generateAnalysis
GetAnalysisFresh(c) ==
    /\ pc = "server"
    /\ calls[StartupCaller].st # "idle"
    /\ calls[c].st = "idle"
    /\ generateAnalysis(c, "fresh", Null)
    /\ UNCHANGED <<pc, candles, oracle, pipeVars, helperVars>>

\* await runPipeline(candles) resolved; generateAnalysis awaits runAnalysis
PipelineResolves(c) ==
    /\ pc = "server"
    /\ calls[c].st = "pipeline"
    /\ calls' = [calls EXCEPT ![c].st = "analysis"]
    /\ UNCHANGED <<latestAnalysis, isAnalyzing, runs>>
    /\ UNCHANGED <<pc, candles, oracle, pipeVars, helperVars>>

\* await runAnalysis(candles) resolved: the cache is written, the value
\* returned, and the finally block resets the flag
AnalysisResolves(c) ==
    /\ pc = "server"
    /\ calls[c].st = "analysis"
    /\ latestAnalysis' = Analysis(calls[c].run)
    /\ isAnalyzing' = FALSE
    /\ calls' = [calls EXCEPT ![c].st = "responded",
                               ![c].response = Json(Analysis(calls[c].run))]
    /\ UNCHANGED runs
    /\ UNCHANGED <<pc, candles, oracle, pipeVars, helperVars>>

RunThrowsNoFinally(c) ==
    /\ pc = "server"
    /\ calls[c].st \in {"pipeline", "analysis"}
    /\ calls' = [calls EXCEPT ![c].st = "responded", ![c].response = Failed]
    /\ UNCHANGED <<latestAnalysis, isAnalyzing, runs>>
    /\ UNCHANGED <<pc, candles, oracle, pipeVars, helperVars>>

\* either await rejected: the finally block resets the flag, the cache is
\* not written, the caller gets the rejection
RunThrows(c) ==
    /\ pc = "server"
    /\ calls[c].st \in {"pipeline", "analysis"}
    /\ isAnalyzing' = FALSE
    /\ calls' = [calls EXCEPT ![c].st = "responded", ![c].response = Failed]
    /\ UNCHANGED <<latestAnalysis, runs>>
    /\ UNCHANGED <<pc, candles, oracle, pipeVars, helperVars>>

InitServer ==
    /\ pc = "server"
    /\ candles = <<>>
    /\ oracle = NeutralOracle(0)
    /\ PipelineIdle
    /\ HelpersIdle
    /\ ServerIdle

NextServer ==
    \/ Startup
    \/ \E c \in Requests : GetAnalysis(c)
    \/ \E c \in Requests : GetAnalysisFresh(c)
    \/ \E c \in Callers : PipelineResolves(c)
    \/ \E c \in Callers : AnalysisResolves(c)
    \/ \E c \in Callers : RunThrows(c)

SpecServer == InitServer /\ [][NextServer]_vars

(***************************************************************************)
(* Properties of the server's analysis cache                               *)
(***************************************************************************)
\* the callers whose analysis run is in flight
InFlight == {c \in Callers : calls[c].st \in {"pipeline", "analysis"}}

Arrives(c) == calls[c].st = "idle" /\ calls'[c].st # "idle"

RunEnds(c) == calls[c].st \in {"pipeline", "analysis"} /\ calls'[c].st = "responded"

FreshResponseIsFreshRun ==
    \A c \in Requests :
        (calls[c].kind = "fresh" /\ calls[c].response.status = 200) =>
            /\ calls[c].response.body # Null
            /\ calls[c].response.body.run > calls[c].arrivedAt

\* the step of the run of c that ends by throwing
RunFails(c) == RunEnds(c) /\ calls'[c].response = Failed

====
